---- MODULE Spec2Model ----
(***************************************************************************)
(* Model of tools/create_multi_input_model.py (composition of a            *)
(* multi-input model from N single-input checkpoints) and of the dataset   *)
(* selection of tools/test_net.py.                                         *)
(*                                                                         *)
(* A parameter path is a sequence of tokens whose concatenation is the     *)
(* Python string: <<"Conv_Body", ".", "x">> is 'Conv_Body.x' and           *)
(* <<"Conv_Body", "Extra", ".", "x">> is 'Conv_BodyExtra.x'.  No token is  *)
(* a proper prefix of another, so str.startswith and str.split are the     *)
(* token operations below.                                                 *)
(***************************************************************************)
EXTENDS Integers, Sequences, FiniteSets, TLC

\* ------------------------------------------------------------------ bounds
MaxCkpts == 2
MaxBodies == 2
MaxPartKeys == 3

\* the classes model.Conv_Body can be an instance of: the generic muxer and
\* the one that concatenates the bodies' outputs and selects with a conv
Muxers == {"BodyMuxer", "BodyMuxer_ConcatenateConv"}

\* ------------------------------------------------------------ string model
CB == "Conv_Body"
DOT == "."

Keys ==
  { <<CB, DOT, "x">>, <<CB, "Extra", DOT, "x">>, <<CB>>,
    <<"Head", DOT, "x">>, <<"Head", DOT, "y">>, <<"Mask", DOT, "x">> }

\* key.startswith('Conv_Body')
StartsWithConvBody(key) == Len(key) >= 1 /\ key[1] = CB

HasDot(key) == \E j \in 1..Len(key) : key[j] = DOT

FirstDot(key) == CHOOSE j \in 1..Len(key) : key[j] = DOT /\ \A l \in 1..(j - 1) : key[l] # DOT

\* key.split('.', 1): one piece when the key has no dot, else two
Split1(key) ==
  IF HasDot(key)
  THEN << SubSeq(key, 1, FirstDot(key) - 1), SubSeq(key, FirstDot(key) + 1, Len(key)) >>
  ELSE << key >>

\* key.split('.', 1)[-1]
SplitLast(key) == Split1(key)[Len(Split1(key))]

\* ------------------------------------------------------------------ tensors
InitVal(seed) == [src |-> "init", n |-> seed, key |-> <<>>]
CkptVal(c, key) == [src |-> "ckpt", n |-> c, key |-> key]
SelectVal(idx) == [src |-> "select", n |-> idx, key |-> <<>>]

\* ------------------------------------------------------------ dictionaries
EmptyDict == [k \in {} |-> InitVal(0)]

Put(d, k, v) == [x \in (DOMAIN d) \cup {k} |-> IF x = k THEN v ELSE d[x]]

\* the dict comprehension of body_state_dict over the first n items of
\* checkpoint c (a later item with the same sub-key replaces the earlier)
RECURSIVE BodyStateDict(_, _, _)
BodyStateDict(c, keys, n) ==
  IF n = 0 THEN EmptyDict
  ELSE LET d == BodyStateDict(c, keys, n - 1)
           key == keys[n]
       IN IF StartsWithConvBody(key) THEN Put(d, SplitLast(key), CkptVal(c, key)) ELSE d

\* the loop filling children_state_dicts over the first n items: the
\* children in order of first appearance, their dicts, and the exception
RECURSIVE ChildrenStateDicts(_, _, _)
ChildrenStateDicts(c, keys, n) ==
  IF n = 0 THEN [order |-> <<>>, dicts |-> EmptyDict, err |-> "none"]
  ELSE LET acc == ChildrenStateDicts(c, keys, n - 1)
           key == keys[n]
       IN IF acc.err # "none" \/ StartsWithConvBody(key) THEN acc
          ELSE IF Len(Split1(key)) # 2 THEN [acc EXCEPT !.err = "ValueError"]
          ELSE LET child == Split1(key)[1]
                   child_key == Split1(key)[2]
                   known == child \in DOMAIN acc.dicts
                   old == IF known THEN acc.dicts[child] ELSE EmptyDict
               IN IF child_key \in DOMAIN old THEN [acc EXCEPT !.err = "AssertionError"]
                  ELSE [order |-> IF known THEN acc.order ELSE Append(acc.order, child),
                        dicts |-> Put(acc.dicts, child, Put(old, child_key, CkptVal(c, key))),
                        err |-> "none"]

\* --------------------------------------------------------------- the model
BodyParams == { <<"x">> }
HeadParams == { <<"x">> }
ConvParams == { <<"conv">> }
HeadLayouts == { { <<"Head">> }, { <<"Head">>, <<"Mask">> } }

\* Generalized_RCNN(): freshly initialised parameters
NewModel(cfg, seed) ==
  [bodies |-> [s \in 1..cfg.num_bodies |-> [p \in BodyParams |-> InitVal(seed)]],
   heads |-> [c \in cfg.heads |-> [p \in HeadParams |-> InitVal(seed)]],
   conv |-> IF cfg.muxer = "BodyMuxer_ConcatenateConv"
            THEN [p \in ConvParams |-> InitVal(seed)] ELSE EmptyDict]

\* module.load_state_dict(sd), strict: the matching entries are copied, and
\* a missing or unexpected key raises afterwards
LoadStateDict(params, sd) ==
  [params |-> [p \in DOMAIN params |-> IF p \in DOMAIN sd THEN sd[p] ELSE params[p]],
   ok |-> (DOMAIN sd = DOMAIN params)]

\* (mutant) every checkpoint is installed into the first body
BodySlotFirst(i) == 1

\* model.Conv_Body.bodies[i]
BodySlot(i) == i + 1

\* (mutant) the heads are taken from every checkpoint from the index on
IsHeadSourceFrom(i, hwi) == i >= hwi

\* i == args.head_weights_index
IsHeadSource(i, hwi) == i = hwi

\* (mutant) a child the model lacks is skipped instead of looked up
RECURSIVE InstallKnownChildren(_, _, _, _)
InstallKnownChildren(heads, order, dicts, k) ==
  IF k > Len(order) THEN [heads |-> heads, err |-> "none", loaded |-> <<>>]
  ELSE LET child == order[k]
       IN IF child \notin DOMAIN heads
          THEN InstallKnownChildren(heads, order, dicts, k + 1)
          ELSE LET r == LoadStateDict(heads[child], dicts[child])
                   h1 == [heads EXCEPT ![child] = r.params]
               IN IF ~r.ok
                  THEN [heads |-> h1, err |-> "RuntimeError", loaded |-> <<child>>]
                  ELSE LET rest == InstallKnownChildren(h1, order, dicts, k + 1)
                       IN [heads |-> rest.heads, err |-> rest.err,
                           loaded |-> <<child>> \o rest.loaded]

\* for child, child_state_dict in children_state_dicts.items():
\*     model._modules[child].load_state_dict(child_state_dict)
RECURSIVE InstallChildren(_, _, _, _)
InstallChildren(heads, order, dicts, k) ==
  IF k > Len(order) THEN [heads |-> heads, err |-> "none", loaded |-> <<>>]
  ELSE LET child == order[k]
       IN IF child \notin DOMAIN heads
          THEN [heads |-> heads, err |-> "KeyError", loaded |-> <<>>]
          ELSE LET r == LoadStateDict(heads[child], dicts[child])
                   h1 == [heads EXCEPT ![child] = r.params]
               IN IF ~r.ok
                  THEN [heads |-> h1, err |-> "RuntimeError", loaded |-> <<child>>]
                  ELSE LET rest == InstallChildren(h1, order, dicts, k + 1)
                       IN [heads |-> rest.heads, err |-> rest.err,
                           loaded |-> <<child>> \o rest.loaded]

\* one pass of the body of the for loop on model m, for the checkpoint file
\* at position i: the model it leaves, the exception, the slot and the head
\* children on which load_state_dict was called
LoopBody(m, i, file, hwi) ==
  IF ~file.readable
  THEN [model |-> m, err |-> "LoadError", slot |-> 0, children |-> <<>>]
  ELSE IF BodySlot(i) \notin DOMAIN m.bodies
  THEN [model |-> m, err |-> "IndexError", slot |-> 0, children |-> <<>>]
  ELSE
    LET r == LoadStateDict(m.bodies[BodySlot(i)], BodyStateDict(i, file.keys, Len(file.keys)))
        m1 == [m EXCEPT !.bodies[BodySlot(i)] = r.params]
        split == ChildrenStateDicts(i, file.keys, Len(file.keys))
        h == InstallChildren(m1.heads, split.order, split.dicts, 1)
    IN IF ~r.ok
       THEN [model |-> m1, err |-> "RuntimeError", slot |-> BodySlot(i), children |-> <<>>]
       ELSE IF ~IsHeadSource(i, hwi)
       THEN [model |-> m1, err |-> "none", slot |-> BodySlot(i), children |-> <<>>]
       ELSE IF split.err # "none"
       THEN [model |-> m1, err |-> split.err, slot |-> BodySlot(i), children |-> <<>>]
       ELSE [model |-> [m1 EXCEPT !.heads = h.heads], err |-> h.err,
             slot |-> BodySlot(i), children |-> h.loaded]

\* (mutant) the exception of a loop pass is swallowed
AfterLoopBodySwallow(e, i, n) == IF i + 1 < n THEN "loop" ELSE "hook"

\* an exception leaves main(); otherwise the loop goes on or is exhausted
AfterLoopBody(e, i, n) ==
  IF e # "none" THEN "failed" ELSE IF i + 1 < n THEN "loop" ELSE "hook"

\* (mutant) the hook is called whatever the muxer is
HookAppliesAlways(cfg) == TRUE

\* isinstance(model.Conv_Body, body_muxer.BodyMuxer_ConcatenateConv)
HookApplies(cfg) == cfg.muxer = "BodyMuxer_ConcatenateConv"

\* model.Conv_Body.init_conv_select_index_(index)
InitConvSelectIndex(m, index) == [m EXCEPT !.conv = [p \in DOMAIN m.conv |-> SelectVal(index)]]

\* model.state_dict()
StateDict(m) == m

\* ------------------------------------------------------- composition state
VARIABLES
  args,        \* n: number of --body-checkpoints; head_weights_index
  cfg,         \* the configuration the target model is built from
  model,       \* the target model's parameters
  i,           \* the loop index
  pc,          \* "loop", "hook", "save", "done" or "failed"
  err,         \* the exception that ended main(), or "none"
  output,      \* the output file: <<>> until torch.save wrote it
  files,       \* the checkpoint files read so far, in order
  slotLoads,   \* per backbone slot, the positions whose body dict was loaded
  headLoads,   \* per head child, the positions whose dict was loaded
  hookCalls,   \* calls of init_conv_select_index_
  rerun,       \* a second invocation on the same arguments and files
  part,        \* the partitioner alone: a checkpoint's keys and its partitions
  testnet      \* tools/test_net.py from line 117 on

cvars == <<args, cfg, model, i, pc, err, output, files, slotLoads, headLoads,
           hookCalls, rerun>>

vars == <<cvars, part, testnet>>

Seeds == {0, 1}

\* the parameter paths of the checkpoint files that can be on disk, in file
\* order: single-input checkpoints with and without heads, with a child the
\* target may lack, with a module named Conv_BodyExtra, with dot-less keys
KeyLists ==
  { << <<CB, DOT, "x">> >>,
    << <<CB, DOT, "x">>, <<"Head", DOT, "x">> >>,
    << <<CB, DOT, "x">>, <<"Mask", DOT, "x">> >>,
    << <<CB, DOT, "x">>, <<"Head", DOT, "x">>, <<"Mask", DOT, "x">> >>,
    << <<CB, DOT, "x">>, <<"Mask", DOT, "x">>, <<"Head", DOT, "x">> >>,
    << <<CB, DOT, "x">>, <<CB, "Extra", DOT, "x">>, <<"Head", DOT, "x">> >>,
    << <<CB, DOT, "x">>, <<"Head", DOT, "x">>, <<"Head", DOT, "y">> >>,
    << <<CB, DOT, "x">>, <<"Head", DOT, "y">>, <<"Mask", DOT, "x">> >>,
    << <<CB, DOT, "x">>, <<"Head">> >>,
    << <<CB>>, <<"Head", DOT, "x">> >>,
    << <<"Head", DOT, "x">> >>,
    << >> }

\* what torch.load(checkpoint_path)['model'] can find: an ordered mapping
\* with distinct keys, or nothing readable
Files ==
  { [readable |-> TRUE, keys |-> ks] : ks \in KeyLists }
  \cup { [readable |-> FALSE, keys |-> <<>>] }

HeadIndexes == -1..MaxCkpts

InitCompose ==
  /\ args \in [n : 1..MaxCkpts, head_weights_index : HeadIndexes]
  /\ cfg \in [num_bodies : 1..MaxBodies, muxer : Muxers, heads : HeadLayouts]
  /\ \E s1 \in Seeds, s2 \in Seeds :
       /\ model = NewModel(cfg, s1)
       /\ rerun = [model |-> NewModel(cfg, s2), output |-> <<>>]
  /\ i = 0
  /\ pc = "loop"
  /\ err = "none"
  /\ output = <<>>
  /\ files = <<>>
  /\ slotLoads = [s \in 1..cfg.num_bodies |-> <<>>]
  /\ headLoads = [c \in cfg.heads |-> <<>>]
  /\ hookCalls = 0

\* lines 60-78: one iteration of the loop over args.body_checkpoints
Iteration ==
  /\ pc = "loop"
  /\ \E file \in Files :
       LET r == LoopBody(model, i, file, args.head_weights_index)
           r2 == LoopBody(rerun.model, i, file, args.head_weights_index)
       IN /\ model' = r.model
          /\ rerun' = [rerun EXCEPT !.model = r2.model]
          /\ err' = r.err
          /\ pc' = AfterLoopBody(r.err, i, args.n)
          /\ i' = IF r.err = "none" THEN i + 1 ELSE i
          /\ files' = Append(files, file)
          /\ slotLoads' = IF r.slot = 0 THEN slotLoads
                          ELSE [slotLoads EXCEPT ![r.slot] = Append(@, i)]
          /\ headLoads' = [c \in DOMAIN headLoads |->
                             IF \E j \in DOMAIN r.children : r.children[j] = c
                             THEN Append(headLoads[c], i) ELSE headLoads[c]]
  /\ UNCHANGED <<args, cfg, output, hookCalls, part, testnet>>

\* whether init_conv_select_index_ can raise: never for the index of a body
HookMayRaise(index, m) == index + 1 \notin DOMAIN m.bodies

\* lines 80-84
PostInitHook ==
  /\ pc = "hook"
  /\ IF HookApplies(cfg)
     THEN \/ /\ model' = InitConvSelectIndex(model, args.head_weights_index)
             /\ rerun' = [rerun EXCEPT !.model = InitConvSelectIndex(@, args.head_weights_index)]
             /\ pc' = "save"
             /\ err' = err
          \/ /\ HookMayRaise(args.head_weights_index, model)
             /\ pc' = "failed"
             /\ err' = "IndexError"
             /\ UNCHANGED <<model, rerun>>
     ELSE /\ pc' = "save"
          /\ UNCHANGED <<model, rerun, err>>
  /\ hookCalls' = IF HookApplies(cfg) THEN hookCalls + 1 ELSE hookCalls
  /\ UNCHANGED <<args, cfg, i, output, files, slotLoads, headLoads, part, testnet>>

\* lines 88-89
Writer ==
  /\ pc = "save"
  /\ output' = << [model |-> StateDict(model)] >>
  /\ rerun' = [rerun EXCEPT !.output = << [model |-> StateDict(rerun.model)] >>]
  /\ pc' = "done"
  /\ UNCHANGED <<args, cfg, model, i, err, files, slotLoads, headLoads, hookCalls, part, testnet>>

\* the composition tool not started
IdleCompose ==
  /\ args = [n |-> 1, head_weights_index |-> 0]
  /\ cfg = [num_bodies |-> 1, muxer |-> "BodyMuxer", heads |-> { <<"Head">> }]
  /\ model = NewModel(cfg, 0)
  /\ rerun = [model |-> NewModel(cfg, 0), output |-> <<>>]
  /\ i = 0
  /\ pc = "idle"
  /\ err = "none"
  /\ output = <<>>
  /\ files = <<>>
  /\ slotLoads = [s \in 1..cfg.num_bodies |-> <<>>]
  /\ headLoads = [c \in cfg.heads |-> <<>>]
  /\ hookCalls = 0

IdlePart == [pc |-> "idle", keys |-> <<>>, body |-> EmptyDict,
             heads |-> ChildrenStateDicts(0, <<>>, 0)]

\* ------------------------------------------------- the partitioner alone
SeqsUpTo(S, n) == UNION { [1..m -> S] : m \in 0..n }

Injective(s) == \A a, b \in DOMAIN s : a # b => s[a] # s[b]

\* the keys of one checkpoint, in file order (the keys of a mapping differ)
Checkpoints == { s \in SeqsUpTo(Keys, MaxPartKeys) : Injective(s) }

InitPart ==
  \E ks \in Checkpoints : part = [IdlePart EXCEPT !.pc = "start", !.keys = ks]

\* lines 62-65 and 69-75 on one checkpoint
Partition ==
  /\ part.pc = "start"
  /\ part' = [part EXCEPT !.pc = "done",
                          !.body = BodyStateDict(0, part.keys, Len(part.keys)),
                          !.heads = ChildrenStateDicts(0, part.keys, Len(part.keys))]
  /\ UNCHANGED <<cvars, testnet>>

\* ------------------------------------------------------ tools/test_net.py
\* --dataset names as token sequences: 'flyingthings', 'fbms' and 'davis'
\* are tokens, so `x in args.dataset` is membership among the tokens
KnownDatasets ==
  { <<"coco2017">>, <<"keypoints_coco2017">>, <<"coco_2017_objectness">>,
    <<"flyingthings">>, <<"flyingthings", "_train">>,
    <<"flyingthings", "_estimatedflow">>, <<"flyingthings", "_estimatedflow", "_train">>,
    <<"fbms", "_flow">>, <<"fbms", "_flow", "_train">>,
    <<"davis", "_flow_moving">>, <<"davis", "_flow_moving", "_train">> }

OtherDatasets == { <<"kitti">>, <<"davis">>, <<>> }

\* cfg.TEST.DATASETS set by the branch of the name (lines 118-141)
TestDatasetsOf(name) ==
  CASE name = <<"coco2017">> -> <<"coco_2017_val">>
    [] name = <<"keypoints_coco2017">> -> <<"keypoints_coco_2017_val">>
    [] name = <<"coco_2017_objectness">> -> <<"coco_2017_val_objectness">>
    [] name = <<"flyingthings">> -> <<"flyingthings3d_test">>
    [] name = <<"flyingthings", "_train">> -> <<"flyingthings3d_train">>
    [] name = <<"flyingthings", "_estimatedflow">> -> <<"flyingthings3d_estimatedflow_test">>
    [] name = <<"flyingthings", "_estimatedflow", "_train">> -> <<"flyingthings3d_estimatedflow_train">>
    [] name = <<"fbms", "_flow">> -> <<"fbms_flow_test">>
    [] name = <<"fbms", "_flow", "_train">> -> <<"fbms_flow_train">>
    [] name = <<"davis", "_flow_moving">> -> <<"davis_flow_moving_test">>
    [] name = <<"davis", "_flow_moving", "_train">> -> <<"davis_flow_moving_train">>

\* cfg.MODEL.NUM_CLASSES after the branch of the name
NumClassesOf(name, old) ==
  CASE name = <<"coco2017">> -> 81
    [] name = <<"coco_2017_objectness">> -> 2
    [] OTHER -> old

\* any(x in args.dataset for x in ('flyingthings', 'fbms', 'davis'))
IsFlowDataset(name) ==
  \E j \in DOMAIN name : name[j] \in {"flyingthings", "fbms", "davis"}

IdleTestNet ==
  [pc |-> "idle", given |-> FALSE, dataset |-> <<>>, datasets |-> <<>>,
   num_classes |-> 2, zero_means |-> FALSE, force_json |-> FALSE,
   err |-> "none", calls |-> <<>>]

\* the state at line 117: args.dataset is None (given = FALSE) or a string,
\* and the configuration merged from --cfg and --set
InitTestNetState ==
  \E g \in BOOLEAN, d \in KnownDatasets \cup OtherDatasets,
     ds \in { <<>>, <<"coco_2017_val">>, <<"fbms_flow_test">> },
     nc \in {2, 81}, fj \in BOOLEAN :
    /\ (~g => d = <<>>)
    /\ testnet = [IdleTestNet EXCEPT !.pc = "select", !.given = g, !.dataset = d,
                                     !.datasets = ds, !.num_classes = nc, !.force_json = fj]

\* lines 118-145
SelectDataset ==
  /\ testnet.pc = "select"
  /\ testnet' =
       IF testnet.given /\ testnet.dataset \in KnownDatasets
       THEN [testnet EXCEPT !.pc = "overrides",
                            !.datasets = TestDatasetsOf(testnet.dataset),
                            !.num_classes = NumClassesOf(testnet.dataset, @)]
       ELSE IF testnet.given
       THEN [testnet EXCEPT !.pc = "failed", !.err = "ValueError"]
       ELSE IF testnet.datasets = <<>>
       THEN [testnet EXCEPT !.pc = "failed", !.err = "AssertionError"]
       ELSE [testnet EXCEPT !.pc = "overrides"]
  /\ UNCHANGED <<cvars, part>>

\* lines 147-150: `x in args.dataset` raises TypeError when args.dataset is None
FlowOverrides ==
  /\ testnet.pc = "overrides"
  /\ testnet' =
       IF ~testnet.given
       THEN [testnet EXCEPT !.pc = "failed", !.err = "TypeError"]
       ELSE IF IsFlowDataset(testnet.dataset)
       THEN [testnet EXCEPT !.pc = "infer", !.zero_means = TRUE,
                            !.num_classes = 2, !.force_json = TRUE]
       ELSE [testnet EXCEPT !.pc = "infer"]
  /\ UNCHANGED <<cvars, part>>

\* line 151
AssertAndInferCfg ==
  /\ testnet.pc = "infer"
  /\ testnet' = [testnet EXCEPT !.pc = "run",
                                !.calls = Append(@, "assert_and_infer_cfg")]
  /\ UNCHANGED <<cvars, part>>

\* lines 161-165
RunInference ==
  /\ testnet.pc = "run"
  /\ testnet' = [testnet EXCEPT !.pc = "done", !.calls = Append(@, "run_inference")]
  /\ UNCHANGED <<cvars, part>>

\* ---------------------------------------------------------- specifications
Init == InitCompose /\ part = IdlePart /\ testnet = IdleTestNet

Next == Iteration \/ PostInitHook \/ Writer

Spec == Init /\ [][Next]_vars

InitPartition == IdleCompose /\ InitPart /\ testnet = IdleTestNet

NextPartition == Partition

SpecPartition == InitPartition /\ [][NextPartition]_vars

InitTestNet == IdleCompose /\ part = IdlePart /\ InitTestNetState

NextTestNet == SelectDataset \/ FlowOverrides \/ AssertAndInferCfg \/ RunInference

SpecTestNet == InitTestNet /\ [][NextTestNet]_vars

\* ------------------------------------------------------------------ claims
hwi == args.head_weights_index

Written == output # <<>>

RaisesOn(k) == LoopBody(model, k - 1, files[k], hwi).err # "none"

\* C1: when composition completes, each backbone slot 0..N-1 has been loaded
\* exactly once, with the body sub-key mapping of the checkpoint at its own
\* position, and the number of populated slots is N.
C1_SlotsPopulatedOnce ==
  pc = "done" =>
    /\ Len(files) = args.n
    /\ \A k \in 0..(args.n - 1) :
         /\ k + 1 \in DOMAIN slotLoads
         /\ slotLoads[k + 1] = <<k>>
         /\ model.bodies[k + 1] = BodyStateDict(k, files[k + 1].keys, Len(files[k + 1].keys))
    /\ Cardinality({ s \in DOMAIN slotLoads : slotLoads[s] # <<>> }) = args.n

C1_Witness == pc = "done" /\ args.n >= 2 /\ files[1] # files[2]

\* C2: in every reachable state, head parameters have been loaded only from
\* the checkpoint at position head_weights_index, at most once per child, and
\* no head parameter holds a tensor of another checkpoint.
C2_HeadsOnlyFromHeadIndex ==
  \A c \in DOMAIN headLoads :
    /\ headLoads[c] \in { <<>>, <<hwi>> }
    /\ \A p \in DOMAIN model.heads[c] :
         model.heads[c][p].src = "ckpt" => model.heads[c][p].n = hwi

C2_Witness ==
  /\ pc = "done" /\ args.n >= 2 /\ hwi = 0
  /\ \E c \in DOMAIN headLoads : headLoads[c] = <<hwi>>
  /\ \E k \in 2..Len(files) : \E j \in DOMAIN files[k].keys : ~StartsWithConvBody(files[k].keys[j])

\* C3: the output file is written only after every checkpoint was read,
\* partitioned and installed without an exception; a run in which a pass
\* raises is aborted and never writes, whatever it changed in the model.
C3_WriteOnlyAfterCleanAssembly ==
  /\ Written =>
       /\ pc = "done" /\ err = "none" /\ Len(files) = args.n
       /\ \A k \in 1..Len(files) : ~RaisesOn(k)
  /\ (err # "none" \/ \E k \in 1..Len(files) : RaisesOn(k)) =>
       /\ pc = "failed" /\ err # "none" /\ ~Written

C3_Witness ==
  /\ pc = "failed" /\ ~Written /\ Len(files) >= 2
  /\ model \notin { NewModel(cfg, s) : s \in Seeds }
  /\ \E c \in DOMAIN headLoads : headLoads[c] # <<>>

\* C4 (as claimed): when the number of checkpoints differs from the number
\* of backbone slots nothing is written, and a written output has no slot
\* that was never populated.
C4_CountMismatchNeverWrites ==
  /\ args.n # cfg.num_bodies => ~Written
  /\ Written => \A s \in DOMAIN slotLoads : slotLoads[s] # <<>>

\* C5 (as claimed): in a written output every head parameter comes from the
\* checkpoint at head_weights_index; none keeps its construction-time value.
C5_WrittenHeadsAllFromHeadIndex ==
  Written =>
    \A c \in DOMAIN output[1].model.heads : \A p \in DOMAIN output[1].model.heads[c] :
      /\ output[1].model.heads[c][p].src = "ckpt"
      /\ output[1].model.heads[c][p].n = hwi

\* C7 (as claimed): two runs on the same checkpoints, configuration and
\* head_weights_index, each from a fresh model, write identical mappings.
C7_RerunWritesSame ==
  (Written /\ rerun.output # <<>>) => output = rerun.output

\* C8: init_conv_select_index_ is called at most once, only for the
\* concatenate muxer, only after the last checkpoint was installed and before
\* the write; for any other muxer the parameters the loop left are the ones
\* written.
C8_HookOnceAfterLoopBeforeWrite ==
  [][ /\ hookCalls' # hookCalls =>
           /\ hookCalls = 0 /\ hookCalls' = 1
           /\ cfg.muxer = "BodyMuxer_ConcatenateConv"
           /\ pc = "hook" /\ i = args.n /\ Len(files) = args.n
           /\ ~Written /\ output' = output
      /\ (pc # "loop" /\ model' # model) =>
           /\ hookCalls' # hookCalls
           /\ model' = InitConvSelectIndex(model, hwi)
      /\ (pc = "hook" /\ cfg.muxer # "BodyMuxer_ConcatenateConv") =>
           /\ model' = model /\ pc' = "save"
      /\ output' # output => output' = << [model |-> model] >> /\ pc = "save"
    ]_vars

C8_Witness == pc = "done" /\ hookCalls = 1 /\ Written /\ args.n >= 2

\* the children of the head partition of a file, as lines 69-75 build it
HeadChildren(file) == ChildrenStateDicts(0, file.keys, Len(file.keys)).order

HasUnknownChild(file) ==
  \E j \in DOMAIN HeadChildren(file) : HeadChildren(file)[j] \notin cfg.heads

\* nothing raises in the pass over the file at position k before the lookup
\* of its first unknown child: the body exists and loads, every key splits,
\* and the children before it carry exactly the parameters of their submodule
UnknownChildMetFirst(file, k) ==
  LET split == ChildrenStateDicts(0, file.keys, Len(file.keys))
      first == CHOOSE j \in DOMAIN split.order :
                 /\ split.order[j] \notin cfg.heads
                 /\ \A l \in 1..(j - 1) : split.order[l] \in cfg.heads
  IN /\ k < cfg.num_bodies
     /\ DOMAIN BodyStateDict(0, file.keys, Len(file.keys)) = BodyParams
     /\ split.err = "none"
     /\ \A l \in 1..(first - 1) : DOMAIN split.dicts[split.order[l]] = HeadParams

FirstSegment(key) == IF HasDot(key) THEN SubSeq(key, 1, FirstDot(key) - 1) ELSE key

Remainder(key) == IF HasDot(key) THEN SubSeq(key, FirstDot(key) + 1, Len(key)) ELSE <<>>

HeadEntries(dicts) == UNION { { <<c, k>> : k \in DOMAIN dicts[c] } : c \in DOMAIN dicts }

\* C6 (as claimed): a key is in the body partition, under the remainder of
\* the key, exactly when its first segment is 'Conv_Body', and else in the
\* head partition under its first segment; every key is in exactly one
\* partition and no two keys share an entry.
C6_PartitionByFirstSegment ==
  part.pc = "done" =>
    /\ part.heads.err = "none"
    /\ \A j \in DOMAIN part.keys :
         LET key == part.keys[j]
         IN IF FirstSegment(key) = <<CB>>
            THEN IF HasDot(key)
                 THEN /\ Remainder(key) \in DOMAIN part.body
                      /\ part.body[Remainder(key)] = CkptVal(0, key)
                 ELSE \E k \in DOMAIN part.body : part.body[k] = CkptVal(0, key)
            ELSE /\ FirstSegment(key) \in DOMAIN part.heads.dicts
                 /\ Remainder(key) \in DOMAIN part.heads.dicts[FirstSegment(key)]
                 /\ part.heads.dicts[FirstSegment(key)][Remainder(key)] = CkptVal(0, key)
    /\ Cardinality(DOMAIN part.body) + Cardinality(HeadEntries(part.heads.dicts))
         = Len(part.keys)

\* C10 (as claimed): without --dataset and with cfg.TEST.DATASETS non-empty
\* the script calls assert_and_infer_cfg and then run_inference; an unknown
\* name ends in ValueError and run_inference is never called; for a known
\* name cfg.TEST.DATASETS is the name's dataset when run_inference is called.
C10_DatasetSelection ==
  LET ran == \E j \in DOMAIN testnet.calls : testnet.calls[j] = "run_inference"
  IN /\ (testnet.pc \in {"done", "failed"} /\ ~testnet.given /\ testnet.datasets # <<>>) =>
          /\ testnet.pc = "done"
          /\ testnet.calls = <<"assert_and_infer_cfg", "run_inference">>
     /\ (testnet.given /\ testnet.dataset \notin KnownDatasets) =>
          /\ ~ran
          /\ testnet.pc \in {"done", "failed"} => testnet.err = "ValueError"
     /\ (testnet.given /\ testnet.dataset \in KnownDatasets /\ ran) =>
          testnet.datasets = TestDatasetsOf(testnet.dataset)

====
